---- MODULE Spec2Model ----
\* SyncWatch room synchronisation server (backend/server.js with session
\* tracking and history) and the browser client (public/script.js).
\* Every socket handler runs to completion on the Node event loop, so each
\* handler is one atomic action.
EXTENDS Integers, Sequences, FiniteSets, TLC

\* ---------------------------------------------------------------- bounds
Conns == {"c1", "c2"}                \* socket ids of the connections
RoomIds == {"x", "y"}                \* values generateRoomId can return
Positions == {0, 5}                  \* player positions (seconds) a client reports
Urls == {"u1"}                       \* urls a changeVideo event carries
Messages == {"", " ", "hi"}          \* chat texts: empty, blank, a word
Roles == {"host", "viewer"}          \* roles a chat message can claim
Files == {"f1"}                      \* original names of uploaded files
TickSteps == {5000}                  \* clock advances (ms) between two events
MaxEvents == 5                       \* events served in a run with one room id
MaxEventsTwo == 4                    \* events served in a run with two room ids
MaxEventsPlay == 5                   \* events of a run with a longer series of host commands
MaxEventsEcho == 5
MaxEventsNet == 7                    \* events of a run that follows the deliveries

NoUrl == "null"                      \* videoState.url: null
NoName == "null"                     \* movieName: null
NoFile == "none"                     \* request without a file
NullTime == -1                       \* startedAt / lastPlayAt: null

VARIABLES
    rooms,        \* the rooms Map: room id -> room object
    order,        \* insertion order of the keys of the rooms Map
    groups,       \* socket.io groups: room id -> sockets joined to it
    connected,    \* sockets still connected
    now,          \* Date.now()
    history,      \* rows inserted into the history table
    closed,       \* room objects finalized by a host disconnect
    out,          \* events the last handler emitted, per receiving socket
    res,          \* HTTP response of the last handler (upload)
    lastOp,       \* the request the last handler served
    playedMs,     \* observer: time elapsed while the session was PLAYING
    createdCount, \* observer: create-room events that were given this id
    lastCmd,      \* observer: the last host command a room accepted, and when
    inbox,        \* events in flight to each socket, oldest first
    client,       \* the page behind each socket: role, room id, video element
    applied,      \* observer: rooms created and host commands applied, in order
    delivered,    \* observer: per socket, the applied commands it has received
    page,         \* per socket, what its page did while handling the last event
    budget        \* events of each kind the environment may still cause

vars == <<rooms, order, groups, connected, now, history, closed, out, res,
          lastOp, playedMs, createdCount, lastCmd, inbox, client, applied,
          delivered, page, budget>>

\* ---------------------------------------------------------------- values
\* faulty variant of NewRoom: the host is not entered among the members
NewRoomNoMembers(c) ==
    [hostId |-> c,
     members |-> <<>>,
     videoState |-> [url |-> NoUrl, currentTime |-> 0, isPlaying |-> FALSE],
     movieName |-> NoName,
     session |-> [state |-> "IDLE", startedAt |-> NullTime,
                  lastPlayAt |-> NullTime, totalPlayTime |-> 0]]

\* the object create-room stores in the Map
NewRoom(c) ==
    [hostId |-> c,
     members |-> <<c>>,
     videoState |-> [url |-> NoUrl, currentTime |-> 0, isPlaying |-> FALSE],
     movieName |-> NoName,
     session |-> [state |-> "IDLE", startedAt |-> NullTime,
                  lastPlayAt |-> NullTime, totalPlayTime |-> 0]]

Ev(type) ==
    [type |-> type, roomId |-> "", role |-> "", url |-> NoUrl,
     currentTime |-> 0, isPlaying |-> FALSE, userId |-> "", message |-> "",
     serial |-> 0]

EmptyRooms == [k \in {} |-> NewRoom("")]

NoCmd == [op |-> "none", at |-> 0]

NoOut == [c \in Conns |-> <<>>]

\* a page that handled no event in the last step: its video element fired
\* nothing and its listeners emitted nothing
NoPage == [c \in Conns |-> [fired |-> {}, emitted |-> {}]]
NoRes == [status |-> 0, body |-> ""]

Op(op, c, r, result) == [op |-> op, conn |-> c, room |-> r, result |-> result]

\* a request that was dropped, and why
Dropped(op, c, r) ==
    Op(op, c, r, IF r \in DOMAIN rooms THEN "not-host" ELSE "no-room")

\* socket.emit / socket.to(r).emit / io.to(r).emit: append ev for every
\* connected socket of the set S.
Emit(o, S, ev) ==
    [c \in Conns |-> IF c \in S /\ c \in connected THEN Append(o[c], ev) ELSE o[c]]

SeqRemove(s, e) == SelectSeq(s, LAMBDA v : v # e)

InSeq(s, e) == \E i \in 1..Len(s) : s[i] = e

\* Math.round(ms / 1000) for ms >= 0
RoundSeconds(ms) == (ms + 500) \div 1000

\* the environment causes one more event of kind k
Spend(k) ==
    /\ budget[k] > 0
    /\ budget.total > 0
    /\ budget' = [budget EXCEPT ![k] = @ - 1, !.total = @ - 1]

\* faulty variant of Enqueue: new events overtake the ones in flight
EnqueueFront(q, evs) == evs \o q

\* the events a handler emitted travel to their sockets in emission order;
\* what is in flight to a socket that has disconnected is lost
Enqueue(q, evs) == q \o evs

Wire ==
    /\ inbox' = [c \in Conns |-> IF c \in connected'
                                 THEN Enqueue(inbox[c], out'[c]) ELSE <<>>]
    /\ page' = NoPage
    /\ UNCHANGED <<client, delivered>>

\* the entry of a room creation or of an applied host command
Applied(op, r, t, u) == [op |-> op, room |-> r, currentTime |-> t, url |-> u]

\* faulty variant of Authorized: a room that is not in the Map is implied
AuthorizedOrAbsent(r, c) == r \notin DOMAIN rooms \/ rooms[r].hostId = c

\* faulty variant of Authorized: the guard checks only that the room exists
AuthorizedAnyMember(r, c) == r \in DOMAIN rooms

\* the guard of the host controls: room && room.hostId === socket.id
Authorized(r, c) == r \in DOMAIN rooms /\ rooms[r].hostId = c

\* ---------------------------------------------------------------- room updates
RoomOrNew(r) == IF r \in DOMAIN rooms THEN rooms[r] ELSE NewRoom("")

\* faulty variant of PlaySession: every play restarts the running interval
PlaySessionRestart(s) ==
    [s EXCEPT !.state = "PLAYING",
              !.startedAt = IF s.state = "IDLE" THEN now ELSE @,
              !.lastPlayAt = now]

\* session tracking of socket.on("play")
PlaySession(s) ==
    IF s.state = "IDLE"
    THEN [s EXCEPT !.state = "PLAYING", !.startedAt = now, !.lastPlayAt = now]
    ELSE IF s.state = "PAUSED"
    THEN [s EXCEPT !.lastPlayAt = now, !.state = "PLAYING"]
    ELSE s

\* faulty variant of PauseSession: a pause moves any session to PAUSED
PauseSessionAlways(s) ==
    [s EXCEPT !.totalPlayTime = IF s.state = "PLAYING"
                                THEN @ + (now - s.lastPlayAt) ELSE @,
              !.state = "PAUSED"]

\* session tracking of socket.on("pause")
PauseSession(s) ==
    IF s.state = "PLAYING"
    THEN [s EXCEPT !.totalPlayTime = @ + (now - s.lastPlayAt), !.state = "PAUSED"]
    ELSE s

\* faulty variant of EndedSession: the open interval is added in any state
EndedSessionAlwaysAdds(s) ==
    [s EXCEPT !.totalPlayTime = @ + (now - s.lastPlayAt), !.state = "ENDED"]

\* faulty variant of EndedSession: the time is finalized, the state is kept
EndedSessionKeepState(s) ==
    [s EXCEPT !.totalPlayTime = IF s.state = "PLAYING"
                                THEN @ + (now - s.lastPlayAt) ELSE @]

\* graceful session end of socket.on("disconnect")
EndedSession(s) ==
    [s EXCEPT !.totalPlayTime = IF s.state = "PLAYING"
                                THEN @ + (now - s.lastPlayAt) ELSE @,
              !.state = "ENDED"]

\* faulty variant of ApplyPlay: a play while playing is ignored
ApplyPlayIfPaused(room, t) ==
    IF room.videoState.isPlaying THEN room
    ELSE [room EXCEPT !.videoState.isPlaying = TRUE,
                      !.videoState.currentTime = t,
                      !.session = PlaySession(@)]

ApplyPlay(room, t) ==
    [room EXCEPT !.videoState.isPlaying = TRUE,
                 !.videoState.currentTime = t,
                 !.session = PlaySession(@)]

ApplyPause(room, t) ==
    [room EXCEPT !.videoState.isPlaying = FALSE,
                 !.videoState.currentTime = t,
                 !.session = PauseSession(@)]

\* faulty variant of ApplySeek: a seek also starts playback
ApplySeekAndPlay(room, t) ==
    [room EXCEPT !.videoState.currentTime = t, !.videoState.isPlaying = TRUE]

ApplySeek(room, t) == [room EXCEPT !.videoState.currentTime = t]

ApplyChangeVideo(room, u) ==
    [room EXCEPT !.videoState = [url |-> u, currentTime |-> 0, isPlaying |-> FALSE]]

\* the url under which an uploaded file is served
UploadUrl(f) == IF f = "f1" THEN "/uploads/f1" ELSE "/uploads/other"

\* the host-only check of the upload endpoint
UploadAllowed(room, sid) == room.hostId = sid

ApplyUpload(room, f) ==
    [room EXCEPT !.videoState = [url |-> UploadUrl(f), currentTime |-> 0,
                                 isPlaying |-> FALSE],
                 !.movieName = f]

\* faulty variant of JoinedEvent: the position is that of a fresh room
JoinedEventFromStart(r, vs) ==
    [Ev("room-joined") EXCEPT !.roomId = r, !.role = "viewer", !.url = vs.url,
                              !.isPlaying = vs.isPlaying]

\* the room-joined reply with the snapshot of the video state
JoinedEvent(r, vs) ==
    [Ev("room-joined") EXCEPT !.roomId = r, !.role = "viewer", !.url = vs.url,
                              !.currentTime = vs.currentTime,
                              !.isPlaying = vs.isPlaying]

\* the row written to the history table for a finalized room
HistoryRow(r, room) ==
    [roomId |-> r,
     movieName |-> IF room.movieName = NoName THEN "Unknown" ELSE room.movieName,
     duration |-> RoundSeconds(room.session.totalPlayTime),
     genre |-> "Unknown",
     watchedAt |-> now]

Without(f, r) == [k \in DOMAIN f \ {r} |-> f[k]]

\* faulty variant of HostLeft: the room is finalized and recorded but stays
\* in the Map
HostLeftKeepsRoom(r, room, g, st) ==
    LET final == [room EXCEPT !.session = EndedSession(@)]
    IN [rooms |-> [st.rooms EXCEPT ![r] = final],
        order |-> st.order,
        history |-> Append(st.history, HistoryRow(r, final)),
        closed |-> Append(st.closed, [roomId |-> r, room |-> final,
                                      played |-> playedMs[r]]),
        out |-> Emit(st.out, g[r], [Ev("room-closed") EXCEPT
                                       !.message = "Host disconnected"])]

\* faulty variant of HostLeft: the room is closed without a notice
HostLeftUnannounced(r, room, g, st) ==
    LET final == [room EXCEPT !.session = EndedSession(@)]
    IN [rooms |-> Without(st.rooms, r),
        order |-> SeqRemove(st.order, r),
        history |-> Append(st.history, HistoryRow(r, final)),
        closed |-> Append(st.closed, [roomId |-> r, room |-> final,
                                      played |-> playedMs[r]]),
        out |-> st.out]

\* the host branch of the disconnect loop: finalize, record, delete, notify
HostLeft(r, room, g, st) ==
    LET final == [room EXCEPT !.session = EndedSession(@)]
    IN [rooms |-> Without(st.rooms, r),
        order |-> SeqRemove(st.order, r),
        history |-> Append(st.history, HistoryRow(r, final)),
        closed |-> Append(st.closed, [roomId |-> r, room |-> final,
                                      played |-> playedMs[r]]),
        out |-> Emit(st.out, g[r], [Ev("room-closed") EXCEPT
                                       !.message = "Host disconnected"])]

\* faulty variant of OthersLeft: a room left with its host alone is deleted
OthersLeftHostAlone(c, r, room, g, st) ==
    IF Len(room.members) <= 1
    THEN [st EXCEPT !.rooms = Without(st.rooms, r),
                    !.order = SeqRemove(st.order, r)]
    ELSE [st EXCEPT !.rooms = [st.rooms EXCEPT ![r] = room],
                    !.out = Emit(st.out, g[r], [Ev("user-left") EXCEPT
                                                  !.userId = c])]

\* the other branches of the disconnect loop: delete an empty room, else
\* tell the room that a user left
OthersLeft(c, r, room, g, st) ==
    IF Len(room.members) = 0
    THEN [st EXCEPT !.rooms = Without(st.rooms, r),
                    !.order = SeqRemove(st.order, r)]
    ELSE [st EXCEPT !.rooms = [st.rooms EXCEPT ![r] = room],
                    !.out = Emit(st.out, g[r], [Ev("user-left") EXCEPT
                                                  !.userId = c])]

\* faulty variant of DisconnectRoom: the emptiness test comes first
DisconnectRoomEmptyFirst(c, r, g, st) ==
    LET room == [st.rooms[r] EXCEPT !.members = SeqRemove(@, c)]
    IN IF Len(room.members) = 0
       THEN [st EXCEPT !.rooms = Without(st.rooms, r),
                       !.order = SeqRemove(st.order, r)]
       ELSE IF room.hostId = c
       THEN HostLeft(r, room, g, st)
       ELSE OthersLeft(c, r, room, g, st)

\* one iteration of the loop over rooms.entries() in socket.on("disconnect")
DisconnectRoom(c, r, g, st) ==
    LET room == [st.rooms[r] EXCEPT !.members = SeqRemove(@, c)]
    IN IF room.hostId = c
       THEN HostLeft(r, room, g, st)
       ELSE OthersLeft(c, r, room, g, st)

\* faulty variant of DisconnectLoop: deleting a room during the scan makes
\* the scan skip the entry that follows it
RECURSIVE DisconnectLoopSkipping(_, _, _, _)
DisconnectLoopSkipping(c, keys, g, st) ==
    IF keys = <<>> THEN st
    ELSE LET st1 == DisconnectRoom(c, Head(keys), g, st)
             rest == IF Head(keys) \in DOMAIN st1.rooms \/ Tail(keys) = <<>>
                     THEN Tail(keys) ELSE Tail(Tail(keys))
         IN DisconnectLoopSkipping(c, rest, g, st1)

\* the loop over rooms.entries(): every entry of the Map is visited once, in
\* insertion order, also when the entry being visited is deleted
RECURSIVE DisconnectLoop(_, _, _, _)
DisconnectLoop(c, keys, g, st) ==
    IF keys = <<>> THEN st
    ELSE DisconnectLoop(c, Tail(keys), g, DisconnectRoom(c, Head(keys), g, st))

\* ---------------------------------------------------------------- handlers
\* socket.on("create-room"): generateRoomId() is Math.random(), any id,
\* whether or not a room of that id is in the Map.
CreateRoom(c) ==
    /\ c \in connected
    /\ Spend("create")
    /\ \E r \in budget.ids :
        /\ groups' = [groups EXCEPT ![r] = @ \cup {c}]
        /\ rooms' = [k \in DOMAIN rooms \cup {r} |->
                        IF k = r THEN NewRoom(c) ELSE rooms[k]]
        /\ order' = IF r \in DOMAIN rooms THEN order ELSE Append(order, r)
        /\ out' = Emit(NoOut, {c}, [Ev("room-created") EXCEPT
                                       !.roomId = r, !.role = "host"])
        /\ lastOp' = Op("create-room", c, r, "ok")
        /\ playedMs' = [playedMs EXCEPT ![r] = 0]
        /\ createdCount' = [createdCount EXCEPT ![r] = @ + 1]
        /\ lastCmd' = [lastCmd EXCEPT ![r] = NoCmd]
        /\ applied' = Append(applied, Applied("create-room", r, 0, NoUrl))
    /\ res' = NoRes
    /\ UNCHANGED <<connected, now, history, closed>>
    /\ Wire

\* faulty variant of ErrorMsg: the error goes to every socket
ErrorMsgToAll(c, msg) ==
    Emit(NoOut, Conns, [Ev("error-msg") EXCEPT !.message = msg])

\* socket.emit("error-msg", msg)
ErrorMsg(c, msg) == Emit(NoOut, {c}, [Ev("error-msg") EXCEPT !.message = msg])

\* faulty variant of HostJoining: the host is not told apart from a viewer
HostJoiningUnnoticed(r, c) == FALSE

\* the host check of join-room: room.hostId === socket.id
HostJoining(r, c) == rooms[r].hostId = c

\* faulty variant of JoinAudience: the joiner is notified of its own arrival
JoinAudienceAll(c, g) == g

\* socket.to(roomId) of join-room: the group of the room without the joiner
JoinAudience(c, g) == g \ {c}

\* socket.on("join-room")
JoinRoom(c, r) ==
    /\ c \in connected
    /\ IF r \notin DOMAIN rooms
       THEN /\ Spend("drop")
            /\ out' = ErrorMsg(c, "Room does not exist")
            /\ lastOp' = Op("join-room", c, r, "no-room")
            /\ UNCHANGED <<rooms, groups>>
       ELSE IF HostJoining(r, c)
       THEN /\ Spend("drop")
            /\ out' = ErrorMsg(c, "Host is already in the room")
            /\ lastOp' = Op("join-room", c, r, "already-host")
            /\ UNCHANGED <<rooms, groups>>
       ELSE /\ Spend("join")
            /\ groups' = [groups EXCEPT ![r] = @ \cup {c}]
            /\ rooms' = [rooms EXCEPT ![r].members = Append(@, c)]
            /\ out' = Emit(Emit(NoOut, {c}, JoinedEvent(r, rooms[r].videoState)),
                           JoinAudience(c, groups'[r]),
                           [Ev("user-joined") EXCEPT !.userId = c])
            /\ lastOp' = Op("join-room", c, r, "ok")
    /\ res' = NoRes
    /\ UNCHANGED <<order, connected, now, history, closed, playedMs, createdCount,
                   lastCmd, applied>>
    /\ Wire

\* a host control: its guard, the new room object, the event for the others
HostControl(op, c, r, room, ev) ==
    /\ c \in connected
    /\ IF Authorized(r, c)
       THEN /\ Spend("cmd")
            /\ rooms' = [rooms EXCEPT ![r] = room]
            /\ applied' = Append(applied, Applied(op, r, ev.currentTime, ev.url))
            /\ out' = Emit(NoOut, groups[r] \ {c},
                           [ev EXCEPT !.serial = Len(applied')])
            /\ lastOp' = Op(op, c, r, "ok")
            /\ lastCmd' = [lastCmd EXCEPT ![r] = [op |-> op, at |-> now]]
       ELSE /\ Spend("drop")
            /\ out' = NoOut
            /\ lastOp' = Dropped(op, c, r)
            /\ UNCHANGED <<rooms, lastCmd, applied>>
    /\ res' = NoRes
    /\ UNCHANGED <<order, groups, connected, now, history, closed, playedMs,
                   createdCount>>
    /\ Wire

\* socket.on("play")
Play(c, r, t) ==
    HostControl("play", c, r, ApplyPlay(RoomOrNew(r), t),
                [Ev("play") EXCEPT !.currentTime = t])

\* socket.on("pause")
Pause(c, r, t) ==
    HostControl("pause", c, r, ApplyPause(RoomOrNew(r), t),
                [Ev("pause") EXCEPT !.currentTime = t])

\* socket.on("seek")
Seek(c, r, t) ==
    HostControl("seek", c, r, ApplySeek(RoomOrNew(r), t),
                [Ev("seek") EXCEPT !.currentTime = t])

\* socket.on("changeVideo")
ChangeVideo(c, r, u) ==
    HostControl("changeVideo", c, r, ApplyChangeVideo(RoomOrNew(r), u),
                [Ev("changeVideo") EXCEPT !.url = u])

\* app.post("/upload"): sid is the x-socket-id header, f the uploaded file
Upload(sid, r, f) ==
    /\ IF f = NoFile
       THEN /\ Spend("drop")
            /\ res' = [status |-> 400, body |-> "No video file uploaded"]
            /\ out' = NoOut
            /\ lastOp' = Op("upload", sid, r, "no-file")
            /\ UNCHANGED <<rooms, lastCmd, applied>>
       ELSE IF r \notin DOMAIN rooms
       THEN /\ Spend("drop")
            /\ res' = [status |-> 400, body |-> "Invalid room"]
            /\ out' = NoOut
            /\ lastOp' = Dropped("upload", sid, r)
            /\ UNCHANGED <<rooms, lastCmd, applied>>
       ELSE IF ~UploadAllowed(rooms[r], sid)
       THEN /\ Spend("drop")
            /\ res' = [status |-> 403, body |-> "Only host can upload video"]
            /\ out' = NoOut
            /\ lastOp' = Dropped("upload", sid, r)
            /\ UNCHANGED <<rooms, lastCmd, applied>>
       ELSE /\ Spend("cmd")
            /\ rooms' = [rooms EXCEPT ![r] = ApplyUpload(@, f)]
            /\ applied' = Append(applied, Applied("upload", r, 0, UploadUrl(f)))
            /\ out' = Emit(NoOut, groups[r],
                           [Ev("changeVideo") EXCEPT !.url = UploadUrl(f),
                                                     !.serial = Len(applied')])
            /\ res' = [status |-> 200, body |-> UploadUrl(f)]
            /\ lastOp' = Op("upload", sid, r, "ok")
            /\ lastCmd' = [lastCmd EXCEPT ![r] = [op |-> "upload", at |-> now]]
    /\ UNCHANGED <<order, groups, connected, now, history, closed, playedMs,
                   createdCount>>
    /\ Wire

\* faulty variant of ChatAudience: the sender is left out
ChatAudienceOthers(c, r) == groups[r] \ {c}

\* io.to(roomId): the sockets a chat message is relayed to
ChatAudience(c, r) == groups[r]

\* socket.on("chat-message"): the role is the one the client sent
ChatMessage(c, r, m, role) ==
    /\ c \in connected
    /\ IF r = "" \/ m = ""
       THEN /\ Spend("drop")
            /\ out' = NoOut
            /\ lastOp' = Op("chat-message", c, r, "empty")
       ELSE /\ Spend("drop")
            /\ out' = Emit(NoOut, ChatAudience(c, r),
                           [Ev("chat-message") EXCEPT !.message = m, !.role = role])
            /\ lastOp' = Op("chat-message", c, r, "ok")
    /\ res' = NoRes
    /\ UNCHANGED <<rooms, order, groups, connected, now, history, closed,
                   playedMs, createdCount, lastCmd, applied>>
    /\ Wire

\* the body of socket.on("disconnect") for socket c; socket.io has taken c
\* out of every group before the handler runs
DisconnectBody(c) ==
    LET g1 == [r \in RoomIds |-> groups[r] \ {c}]
        st0 == [rooms |-> rooms, order |-> order, history |-> history,
                closed |-> closed, out |-> NoOut]
        st1 == DisconnectLoop(c, order, g1, st0)
    IN /\ Spend("disc")
       /\ groups' = g1
       /\ connected' = connected \ {c}
       /\ rooms' = st1.rooms
       /\ order' = st1.order
       /\ history' = st1.history
       /\ closed' = st1.closed
       /\ out' = st1.out
       /\ res' = NoRes
       /\ UNCHANGED <<now, playedMs, createdCount, lastCmd, applied>>
       /\ Wire

\* socket.on("disconnect")
Disconnect(c) ==
    /\ c \in connected
    /\ DisconnectBody(c)
    /\ lastOp' = Op("disconnect", c, "", "ok")

\* socket.on("end-session"): socket.disconnect() runs the disconnect handler
EndSession(c, r) ==
    /\ c \in connected
    /\ IF Authorized(r, c)
       THEN /\ DisconnectBody(c)
            /\ lastOp' = Op("end-session", c, r, "ok")
       ELSE /\ Spend("drop")
            /\ out' = NoOut
            /\ res' = NoRes
            /\ lastOp' = Dropped("end-session", c, r)
            /\ UNCHANGED <<rooms, order, groups, connected, now, history,
                           closed, playedMs, createdCount, lastCmd, applied>>
            /\ Wire

\* time passes between two events
Tick ==
    /\ \E d \in TickSteps :
        /\ Spend("tick")
        /\ now' = now + d
        /\ playedMs' = [r \in RoomIds |->
                          IF r \in DOMAIN rooms /\ rooms[r].session.state = "PLAYING"
                          THEN playedMs[r] + d ELSE playedMs[r]]
    /\ out' = NoOut
    /\ res' = NoRes
    /\ lastOp' = Op("tick", "", "", "ok")
    /\ UNCHANGED <<rooms, order, groups, connected, history, closed, createdCount,
                   lastCmd, applied>>
    /\ Wire

\* ---------------------------------------------------------------- client
\* the page before it has created or joined a room
NewClient ==
    [role |-> "none", roomId |-> "", src |-> NoUrl, currentTime |-> 0,
     playing |-> FALSE]

\* videoEl.src = url: the element loads the new source, paused at the start
SetSrc(cl, u) == [cl EXCEPT !.src = u, !.currentTime = 0, !.playing = FALSE]

\* socket.on("room-created")
OnRoomCreated(cl, ev) == [cl EXCEPT !.role = "host", !.roomId = ev.roomId]

\* socket.on("room-joined"): the snapshot is applied only if it has a url
OnRoomJoined(cl, ev) ==
    LET v == [cl EXCEPT !.role = "viewer", !.roomId = ev.roomId]
    IN IF ev.url # NoUrl
       THEN [SetSrc(v, ev.url) EXCEPT !.currentTime = ev.currentTime,
                                      !.playing = ev.isPlaying]
       ELSE v

\* socket.on("play")
OnPlay(cl, ev) ==
    IF cl.role = "viewer"
    THEN [cl EXCEPT !.currentTime = ev.currentTime, !.playing = TRUE]
    ELSE cl

\* socket.on("pause")
OnPause(cl, ev) ==
    IF cl.role = "viewer"
    THEN [cl EXCEPT !.currentTime = ev.currentTime, !.playing = FALSE]
    ELSE cl

\* socket.on("seek")
OnSeek(cl, ev) ==
    IF cl.role = "viewer" THEN [cl EXCEPT !.currentTime = ev.currentTime] ELSE cl

\* socket.on("changeVideo"): host and viewers alike
OnChangeVideo(cl, ev) == [SetSrc(cl, ev.url) EXCEPT !.currentTime = 0]

\* the handler the page runs for an event; the other events change no state
Receive(cl, ev) ==
    CASE ev.type = "room-created" -> OnRoomCreated(cl, ev)
      [] ev.type = "room-joined" -> OnRoomJoined(cl, ev)
      [] ev.type = "play" -> OnPlay(cl, ev)
      [] ev.type = "pause" -> OnPause(cl, ev)
      [] ev.type = "seek" -> OnSeek(cl, ev)
      [] ev.type = "changeVideo" -> OnChangeVideo(cl, ev)
      [] OTHER -> cl

\* the events the video element fires when the handler of ev has run on page
\* cl: every assignment to currentTime is taken to end in seeked, play() fires
\* play on a paused element and pause() fires pause on a playing one
ElementEvents(cl, ev) ==
    CASE ev.type = "room-joined" ->
             IF ev.url # NoUrl
             THEN {"seeked"} \cup (IF ev.isPlaying THEN {"play"} ELSE {})
             ELSE {}
      [] ev.type = "play" ->
             IF cl.role = "viewer"
             THEN {"seeked"} \cup (IF cl.playing THEN {} ELSE {"play"})
             ELSE {}
      [] ev.type = "pause" ->
             IF cl.role = "viewer"
             THEN {"seeked"} \cup (IF cl.playing THEN {"pause"} ELSE {})
             ELSE {}
      [] ev.type = "seek" -> IF cl.role = "viewer" THEN {"seeked"} ELSE {}
      [] ev.type = "changeVideo" -> {"seeked"}
      [] OTHER -> {}

\* the request a listener of the video element emits for element event e
Request(cl, e) ==
    [op |-> IF e = "seeked" THEN "seek" ELSE e,
     roomId |-> cl.roomId, currentTime |-> cl.currentTime]

\* faulty variant of Listener: the listeners emit whatever the role is
ListenerAnyRole(cl, e) == {Request(cl, e)}

\* videoEl.addEventListener("play" / "pause" / "seeked"): only the host emits
Listener(cl, e) == IF cl.role = "host" THEN {Request(cl, e)} ELSE {}

\* what the page does for event ev: cl is the page before the handler, cl2
\* the page after it, when the element's events reach the listeners
PageActs(cl, cl2, ev) ==
    [fired |-> ElementEvents(cl, ev),
     emitted |-> UNION {Listener(cl2, e) : e \in ElementEvents(cl, ev)}]

\* the oldest event in flight to socket c arrives and its handler runs
Deliver(c) ==
    /\ c \in connected
    /\ inbox[c] # <<>>
    /\ Spend("deliver")
    /\ LET ev == Head(inbox[c])
       IN /\ client' = [client EXCEPT ![c] = Receive(@, ev)]
          /\ delivered' = [delivered EXCEPT ![c] =
                              IF ev.serial > 0 THEN Append(@, ev.serial) ELSE @]
          /\ page' = [NoPage EXCEPT ![c] = PageActs(client[c], client'[c], ev)]
          /\ lastOp' = Op("deliver", c, "", ev.type)
    /\ inbox' = [inbox EXCEPT ![c] = Tail(@)]
    /\ out' = NoOut
    /\ res' = NoRes
    /\ UNCHANGED <<rooms, order, groups, connected, now, history, closed,
                   playedMs, createdCount, lastCmd, applied>>


InitWith(b) ==
    /\ rooms = EmptyRooms
    /\ order = <<>>
    /\ groups = [r \in RoomIds |-> {}]
    /\ connected = Conns
    /\ now = 0
    /\ history = <<>>
    /\ closed = <<>>
    /\ out = NoOut
    /\ res = NoRes
    /\ lastOp = Op("none", "", "", "ok")
    /\ playedMs = [r \in RoomIds |-> 0]
    /\ createdCount = [r \in RoomIds |-> 0]
    /\ lastCmd = [r \in RoomIds |-> NoCmd]
    /\ inbox = NoOut
    /\ client = [c \in Conns |-> NewClient]
    /\ applied = <<>>
    /\ delivered = NoOut
    /\ page = NoPage
    /\ budget = b

\* one event: a socket event, an upload request or the passing of time;
\* requests name the room ids that generateRoomId can return
Next ==
    \/ \E c \in Conns : CreateRoom(c)
    \/ \E c \in Conns, r \in budget.ids : JoinRoom(c, r)
    \/ \E c \in Conns, r \in budget.ids, t \in Positions : Play(c, r, t)
    \/ \E c \in Conns, r \in budget.ids, t \in Positions : Pause(c, r, t)
    \/ \E c \in Conns, r \in budget.ids, t \in Positions : Seek(c, r, t)
    \/ \E c \in Conns, r \in budget.ids, u \in Urls : ChangeVideo(c, r, u)
    \/ \E c \in Conns, r \in budget.ids, f \in Files \cup {NoFile} : Upload(c, r, f)
    \/ \E c \in Conns, r \in budget.ids : EndSession(c, r)
    \/ \E c \in Conns : Disconnect(c)
    \/ \E c \in Conns, r \in budget.ids \cup {""}, m \in Messages, role \in Roles :
          ChatMessage(c, r, m, role)
    \/ \E c \in Conns : Deliver(c)
    \/ Tick

\* One room id: every create-room after the first collides with it or reuses it.
\* At most MaxEvents events, of which 2 create-room, 2 accepted joins, 2 accepted
\* host commands, 2 clock advances, 2 disconnects, 1 delivery and 1 request
\* that changes no room (a rejected request or a chat message).
Init ==
    InitWith([ids |-> {"x"}, total |-> MaxEvents, create |-> 2, join |-> 2,
              cmd |-> 2, tick |-> 2, disc |-> 2, drop |-> 1, deliver |-> 1])

Spec == Init /\ [][Next]_vars

\* Two room ids and fewer events of each kind.
InitTwo ==
    InitWith([ids |-> RoomIds, total |-> MaxEventsTwo, create |-> 3, join |-> 1,
              cmd |-> 1, tick |-> 1, disc |-> 1, drop |-> 1, deliver |-> 1])

\* One room id, and room for the deliveries that follow the host commands.
InitNet ==
    InitWith([ids |-> {"x"}, total |-> MaxEventsNet, create |-> 1, join |-> 1,
              cmd |-> 2, tick |-> 1, disc |-> 1, drop |-> 1, deliver |-> 3])

SpecNet == InitNet /\ [][Next]_vars

\* One room id and one room, and room for a longer series of host commands.
InitPlay ==
    InitWith([ids |-> {"x"}, total |-> MaxEventsPlay, create |-> 1, join |-> 1,
              cmd |-> 3, tick |-> 2, disc |-> 1, drop |-> 1, deliver |-> 1])

SpecPlay == InitPlay /\ [][Next]_vars

SpecTwo == InitTwo /\ [][Next]_vars

\* One room id that a second create-room can return again, and two deliveries:
\* a page can learn its role and then receive an event of the room.
InitEcho ==
    InitWith([ids |-> {"x"}, total |-> MaxEventsEcho, create |-> 2, join |-> 1,
              cmd |-> 1, tick |-> 1, disc |-> 1, drop |-> 1, deliver |-> 2])

SpecEcho == InitEcho /\ [][Next]_vars

\* ---------------------------------------------------------------- properties
HostCommands == {"play", "pause", "seek", "changeVideo", "upload"}

Live(r) == r \in DOMAIN rooms

IsMember(c, r) == Live(r) /\ InSeq(rooms[r].members, c)

\* the step is a play, pause, seek, changeVideo or upload request of c for room r
HostCommandBy(c, r) ==
    \/ \E t \in Positions : Play(c, r, t) \/ Pause(c, r, t) \/ Seek(c, r, t)
    \/ \E u \in Urls : ChangeVideo(c, r, u)
    \/ \E f \in Files \cup {NoFile} : Upload(c, r, f)

\* the last handler accepted a join: the reply it sent and the room it read
JoinAccepted == lastOp.op = "join-room" /\ lastOp.result = "ok"
JoinReply == out[lastOp.conn][1]

\* C1: a play, pause, seek, changeVideo or upload request of a connection that
\* is not the host of the room it names changes no room: the VideoState and
\* the Session of every room stay as they were.
C1_AuthorityInvariant ==
    [][\A c \in Conns, r \in RoomIds :
          (Live(r) /\ rooms[r].hostId # c /\ HostCommandBy(c, r))
              => rooms' = rooms]_vars

\* C1 witness: a viewer of a room whose session is PLAYING sent a pause, which
\* was dropped.
C1_Witness ==
    /\ lastOp.op = "pause" /\ lastOp.result = "not-host"
    /\ IsMember(lastOp.conn, lastOp.room)
    /\ rooms[lastOp.room].session.state = "PLAYING"
    /\ rooms[lastOp.room].videoState.isPlaying

\* C2: when the host of a room disconnects, the room leaves the Registry and
\* its room object is finalized with Session state ENDED, whatever the state
\* was and whoever remains.
C2_HostDisconnectEndsRoom ==
    [][\A c \in Conns, r \in RoomIds :
          (Live(r) /\ rooms[r].hostId = c /\ c \in connected /\ c \notin connected')
              => /\ r \notin DOMAIN rooms'
                 /\ \E i \in (Len(closed) + 1)..Len(closed') :
                       /\ closed'[i].roomId = r
                       /\ closed'[i].room.hostId = c
                       /\ closed'[i].room.session.state = "ENDED"]_vars

\* C2 witness: a host left a room that never played and had no video, while a
\* viewer was still in it.
C2_Witness ==
    /\ lastOp.op = "disconnect"
    /\ \E i \in 1..Len(closed) :
          /\ closed[i].room.session.state = "ENDED"
          /\ closed[i].room.session.startedAt = NullTime
          /\ closed[i].room.videoState.url = NoUrl
          /\ Len(closed[i].room.members) > 0
          /\ closed[i].roomId \notin DOMAIN rooms

\* the play time a session has accumulated up to now
PlayedSoFar(s) ==
    s.totalPlayTime + (IF s.state = "PLAYING" THEN now - s.lastPlayAt ELSE 0)

RECURSIVE CountRows(_, _)
CountRows(rows, r) ==
    IF rows = <<>> THEN 0
    ELSE (IF Head(rows).roomId = r THEN 1 ELSE 0) + CountRows(Tail(rows), r)

\* C4: every room ever created gets exactly one history row, written when it
\* leaves the Registry: per room id, the rows are the rooms created under
\* that id minus the one still live.
C4_OneRecordPerRoom ==
    \A r \in RoomIds :
        CountRows(history, r) = createdCount[r] - (IF Live(r) THEN 1 ELSE 0)

\* C5: a host command accepted for one room is delivered to no connection
\* that is a member of another room only.
C5_FanOutIsolation ==
    (lastOp.op \in HostCommands /\ lastOp.result = "ok")
        => \A c \in Conns :
              out[c] # <<>> =>
                  ~(/\ ~IsMember(c, lastOp.room)
                    /\ \E r2 \in RoomIds \ {lastOp.room} : IsMember(c, r2))

\* C6: the reply to an accepted join carries source, position and isPlaying,
\* all three equal to the room's VideoState at the join.
C6_SnapshotIsRoomState ==
    JoinAccepted =>
        /\ Live(lastOp.room)
        /\ JoinReply.type = "room-joined"
        /\ JoinReply.url = rooms[lastOp.room].videoState.url
        /\ JoinReply.currentTime = rooms[lastOp.room].videoState.currentTime
        /\ JoinReply.isPlaying = rooms[lastOp.room].videoState.isPlaying

\* C6 witness: a viewer joined a room that has a source, is playing and is at
\* position 5.
C6_Witness ==
    /\ JoinAccepted
    /\ JoinReply.url = "u1"
    /\ JoinReply.currentTime = 5
    /\ JoinReply.isPlaying

\* C7: the room has a source, its last host command is a play at position 0,
\* and a viewer joins 5 seconds later: the snapshot shows isPlaying and
\* position 5.
C7_LateJoinPosition ==
    (/\ JoinAccepted
     /\ rooms[lastOp.room].videoState.url # NoUrl
     /\ lastCmd[lastOp.room].op = "play"
     /\ rooms[lastOp.room].videoState.currentTime = 0
     /\ now - lastCmd[lastOp.room].at = 5000)
        => (JoinReply.isPlaying /\ JoinReply.currentTime = 5)

\* every event in flight has arrived
Quiet == \A c \in Conns : inbox[c] = <<>>

\* the page of c shows itself as a viewer of room r and c is a member of r
ViewerOf(c, r) ==
    /\ c \in connected
    /\ client[c].role = "viewer"
    /\ client[c].roomId = r
    /\ IsMember(c, r)

\* C8: once every fan-out message has been delivered, the (isPlaying,
\* position) that each viewer's page mirrors equals the VideoState of its room.
C8_ViewersConverge ==
    Quiet =>
        \A c \in Conns, r \in RoomIds :
            ViewerOf(c, r) =>
                /\ client[c].playing = rooms[r].videoState.isPlaying
                /\ client[c].currentTime = rooms[r].videoState.currentTime

\* the applied commands socket c has received or will receive, in arrival order
Received(c) ==
    LET q == SelectSeq(inbox[c], LAMBDA ev : ev.serial > 0)
    IN delivered[c] \o [i \in 1..Len(q) |-> q[i].serial]

OfRoom(ss, r) == SelectSeq(ss, LAMBDA n : applied[n].room = r)

Increasing(ss) == \A i, j \in 1..Len(ss) : i < j => ss[i] < ss[j]

\* the room object that results from the entries of room r, taken in order
RECURSIVE Replay(_, _, _)
Replay(log, r, room) ==
    IF log = <<>> THEN room
    ELSE LET e == Head(log)
         IN Replay(Tail(log), r,
                IF e.room # r THEN room
                ELSE CASE e.op = "create-room" -> NewRoom("")
                       [] e.op = "play" -> ApplyPlay(room, e.currentTime)
                       [] e.op = "pause" -> ApplyPause(room, e.currentTime)
                       [] e.op = "seek" -> ApplySeek(room, e.currentTime)
                       [] OTHER -> ApplyChangeVideo(room, e.url))

C10_CreateKeepsLiveRooms ==
    [][\A c \in Conns :
          CreateRoom(c) => \A r \in DOMAIN rooms :
                              r \in DOMAIN rooms' /\ rooms'[r] = rooms[r]]_vars

\* the error-msg event with text msg
ErrorEvent(msg) == [Ev("error-msg") EXCEPT !.message = msg]

\* only socket c was sent anything by the last handler, and that was ev
OnlyTo(o, c, ev) == \A d \in Conns : o[d] = IF d = c THEN <<ev>> ELSE <<>>

\* C11: while a room identifier stays in the Registry, the host recorded
\* under it does not change, whatever the operation.
C11_HostNeverChanges ==
    [][\A r \in RoomIds :
          (r \in DOMAIN rooms /\ r \in DOMAIN rooms')
              => rooms'[r].hostId = rooms[r].hostId]_vars

\* C12: a join that names an identifier with no room sends "Room does not
\* exist" to the requester and to nobody else, creates no room and changes no
\* membership.
C12_JoinUnknownRoom ==
    [][\A c \in Conns, r \in RoomIds :
          (r \notin DOMAIN rooms /\ JoinRoom(c, r))
              => /\ rooms' = rooms
                 /\ groups' = groups
                 /\ OnlyTo(out', c, ErrorEvent("Room does not exist"))]_vars

\* C12 witness: a join was refused for an identifier whose room had been
\* closed, while the other socket was still connected.
C12_Witness ==
    /\ lastOp.op = "join-room" /\ lastOp.result = "no-room"
    /\ Len(closed) > 0
    /\ rooms = EmptyRooms
    /\ out[lastOp.conn] = <<ErrorEvent("Room does not exist")>>

\* C13: a join by the room's own host sends "Host is already in the room" to
\* the host only: members and groups stay as they were, no snapshot and no
\* arrival notice is sent.
C13_JoinOwnRoom ==
    [][\A c \in Conns, r \in RoomIds :
          (r \in DOMAIN rooms /\ rooms[r].hostId = c /\ JoinRoom(c, r))
              => /\ rooms' = rooms
                 /\ groups' = groups
                 /\ OnlyTo(out', c, ErrorEvent("Host is already in the room"))]_vars

\* C13 witness: the host of a room that has a viewer asked to join it.
C13_Witness ==
    /\ lastOp.op = "join-room" /\ lastOp.result = "already-host"
    /\ \E d \in Conns \ {lastOp.conn} : IsMember(d, lastOp.room) /\ out[d] = <<>>
    /\ rooms[lastOp.room].members = <<lastOp.conn, CHOOSE d \in Conns : d # lastOp.conn>>

\* the last handler applied a command of kind op \in ops
Accepted(ops) == lastOp.op \in ops /\ lastOp.result = "ok"

\* the last handler sent socket c exactly one event, of this type and position
GotOne(c, type, t) ==
    /\ Len(out[c]) = 1
    /\ out[c][1].type = type
    /\ out[c][1].currentTime = t

\* C14: an accepted play, pause or seek reaches every member of the room but
\* the host, with the host's position, and reaches nobody else.
C14_FanOutToOtherMembers ==
    Accepted({"play", "pause", "seek"}) =>
        \A c \in Conns :
            IF IsMember(c, lastOp.room) /\ c # lastOp.conn
            THEN GotOne(c, lastOp.op, rooms[lastOp.room].videoState.currentTime)
            ELSE out[c] = <<>>

\* C15: an accepted changeVideo or upload leaves the room with a source and
\* a movie name, at position 0 and not playing, and sends the changeVideo
\* event to every member of the room, the host included.
C15_AttachSourceEffect ==
    Accepted({"changeVideo", "upload"}) =>
        LET room == rooms[lastOp.room]
        IN /\ room.videoState.url # NoUrl
           /\ room.videoState.currentTime = 0
           /\ ~room.videoState.isPlaying
           /\ room.movieName # NoName
           /\ \A c \in Conns :
                 IsMember(c, lastOp.room) =>
                     /\ GotOne(c, "changeVideo", 0)
                     /\ out[c][1].url = room.videoState.url

\* C16: a play, pause, seek, changeVideo or upload of a connection that is
\* not the host of the room is answered with nothing: no event to any socket
\* and no response to the sender.
C16_UnauthorizedIsSilent ==
    (lastOp.op \in HostCommands /\ lastOp.result = "not-host")
        => (out = NoOut /\ res = NoRes)

\* C17: a play, pause or seek that names an identifier with no room is
\* answered with an error event to its sender.
C17_UnknownRoomSurfaced ==
    (lastOp.op \in {"play", "pause", "seek"} /\ lastOp.result = "no-room")
        => \E i \in 1..Len(out[lastOp.conn]) :
              out[lastOp.conn][i].type = "error-msg"

\* socket c disconnects in this step
Leaves(c) == c \in connected /\ c \notin connected'

\* some event of this type is among evs
HasType(evs, type) == \E i \in 1..Len(evs) : evs[i].type = type

\* the user-left notice about socket c is among evs
HasUserLeft(evs, c) ==
    \E i \in 1..Len(evs) : evs[i].type = "user-left" /\ evs[i].userId = c

SharedRoom(c, m) ==
    \E r \in DOMAIN rooms : InSeq(rooms[r].members, c) /\ InSeq(rooms[r].members, m)

\* C19: a disconnect leaves a room that the socket neither hosts nor is a
\* member of as it was, and no member of such a room is sent a user-left
\* notice unless it shares another room with the socket.
C19_DisconnectTouchesOwnRooms ==
    [][\A c \in Conns, r \in RoomIds :
          (Leaves(c) /\ Live(r) /\ rooms[r].hostId # c /\ ~IsMember(c, r))
              => /\ r \in DOMAIN rooms'
                 /\ rooms'[r] = rooms[r]
                 /\ \A m \in Conns :
                       (IsMember(m, r) /\ ~SharedRoom(c, m))
                           => ~HasUserLeft(out'[m], c)]_vars

\* C20: when a member that is not the host disconnects, the room stays in
\* the Registry with only that member removed (VideoState and Session as
\* they were), no history row is written for it, and every remaining member
\* is sent the user-left notice, also when only the host remains.
C20_ViewerLeaves ==
    [][\A c \in Conns, r \in RoomIds :
          (Leaves(c) /\ Live(r) /\ rooms[r].hostId # c /\ IsMember(c, r))
              => /\ r \in DOMAIN rooms'
                 /\ rooms'[r] = [rooms[r] EXCEPT !.members = SeqRemove(@, c)]
                 /\ rooms[r].hostId \in connected'
                 /\ CountRows(history', r) = CountRows(history, r)
                 /\ \A m \in Conns :
                       InSeq(rooms'[r].members, m) => HasUserLeft(out'[m], c)]_vars

\* C20 witness: the only viewer of a playing room left; the room is still
\* live and playing with the host alone, who was sent the user-left notice.
C20_Witness ==
    /\ lastOp.op = "disconnect"
    /\ client[lastOp.conn].role = "viewer"
    /\ client[lastOp.conn].roomId = "x"
    /\ Live("x")
    /\ rooms["x"].members = <<rooms["x"].hostId>>
    /\ rooms["x"].session.state = "PLAYING"
    /\ history = <<>>
    /\ out[rooms["x"].hostId] = <<[Ev("user-left") EXCEPT !.userId = lastOp.conn]>>

\* what the disconnect handler computes when it runs for socket c now
Teardown(c) ==
    DisconnectLoop(c, order, groups,
                   [rooms |-> rooms, order |-> order, history |-> history,
                    closed |-> closed, out |-> NoOut])

\* C21: for a socket whose disconnect has been handled, running the handler
\* once more leaves the Map and every room as they are, writes no history row
\* and sends no room-closed notice.
C21_TeardownIdempotent ==
    \A c \in Conns \ connected :
        /\ Teardown(c).rooms = rooms
        /\ Teardown(c).order = order
        /\ Teardown(c).history = history
        /\ Teardown(c).closed = closed
        /\ \A d \in Conns : ~HasType(Teardown(c).out[d], "room-closed")

\* C21 witness: a host has left and its room was closed and recorded, and
\* another room is live when the handler would run for that host again.
C21_Witness ==
    \E c \in Conns \ connected :
        /\ Len(closed) = 1 /\ closed[1].room.hostId = c
        /\ Len(history) = 1
        /\ Live("x")

\* chat texts that are neither empty nor blank
ValidMessages == Messages \ {"", " "}

\* the chat-message event as relayed
ChatEvent(m, role) == [Ev("chat-message") EXCEPT !.message = m, !.role = role]

\* the last handler relayed a chat message
ChatRelayed == lastOp.op = "chat-message" /\ lastOp.result = "ok"

\* C22: a chat message for an identifier with no room is answered with an
\* error to its sender and is relayed to nobody.
C22_ChatUnknownRoom ==
    (ChatRelayed /\ ~Live(lastOp.room))
        => /\ HasType(out[lastOp.conn], "error-msg")
           /\ \A d \in Conns : ~HasType(out[d], "chat-message")

\* C23: no chat-message event that is relayed carries an empty or blank text.
C23_BlankNotRelayed ==
    \A d \in Conns : \A i \in 1..Len(out[d]) :
        out[d][i].type = "chat-message" => out[d][i].message \in ValidMessages

\* C24: a chat message with a valid text for a live room is sent to every
\* member of the room, the sender included if it is one, and leaves the
\* Map, every room, the groups and the history as they were.
C24_ChatRelay ==
    [][\A c \in Conns, r \in RoomIds, m \in ValidMessages, role \in Roles :
          (Live(r) /\ ChatMessage(c, r, m, role))
              => /\ rooms' = rooms /\ order' = order /\ groups' = groups
                 /\ history' = history /\ closed' = closed
                 /\ \A d \in Conns :
                       IsMember(d, r) => out'[d] = <<ChatEvent(m, role)>>]_vars

\* C24 witness: a viewer of a room with two members sent "hi", and both the
\* host and the viewer itself were sent it.
C24_Witness ==
    /\ ChatRelayed
    /\ Live(lastOp.room)
    /\ rooms[lastOp.room].hostId # lastOp.conn
    /\ IsMember(lastOp.conn, lastOp.room)
    /\ \A d \in Conns : out[d] = <<ChatEvent("hi", "viewer")>>

\* C25: the role on a relayed chat message is host exactly when the sender
\* is the host of the room, and viewer otherwise.
C25_RoleFromRoom ==
    ChatRelayed =>
        \A d \in Conns : \A i \in 1..Len(out[d]) :
            out[d][i].type = "chat-message" =>
                out[d][i].role =
                    IF Live(lastOp.room) /\ rooms[lastOp.room].hostId = lastOp.conn
                    THEN "host" ELSE "viewer"

\* room r is in the Map before and after the step and was not created anew
SameRoom(r) ==
    Live(r) /\ r \in DOMAIN rooms' /\ createdCount'[r] = createdCount[r]

\* room r leaves the Map in this step, finalized as e
Finalized(r, e) ==
    /\ Live(r) /\ r \notin DOMAIN rooms'
    /\ \E i \in (Len(closed) + 1)..Len(closed') :
          closed'[i].roomId = r /\ closed'[i].room = e

\* the steps a session may take while its room is live
SessionSteps ==
    {<<"IDLE", "IDLE">>, <<"IDLE", "PLAYING">>, <<"PLAYING", "PLAYING">>,
     <<"PLAYING", "PAUSED">>, <<"PAUSED", "PAUSED">>, <<"PAUSED", "PLAYING">>}

\* C27: while a room is live its Session only stays as it is or goes
\* IDLE -> PLAYING, PLAYING -> PAUSED or PAUSED -> PLAYING; a room leaves the
\* Map only finalized with state ENDED, and a finalized room is never
\* changed again.
C27_SessionLifecycle ==
    [][/\ \A r \in RoomIds :
             SameRoom(r) =>
                 <<rooms[r].session.state, rooms'[r].session.state>> \in SessionSteps
       /\ \A r \in RoomIds :
             (Live(r) /\ r \notin DOMAIN rooms') =>
                 \E i \in (Len(closed) + 1)..Len(closed') :
                     closed'[i].roomId = r /\ closed'[i].room.session.state = "ENDED"
       /\ \A i \in 1..Len(closed) : closed'[i] = closed[i]]_vars

\* C27 witness: a session that was paused after 5000 ms of play is PLAYING
\* again.
C27_Witness ==
    /\ lastOp.op = "play" /\ lastOp.result = "ok"
    /\ rooms[lastOp.room].session.state = "PLAYING"
    /\ rooms[lastOp.room].session.totalPlayTime = 5000
    /\ rooms[lastOp.room].session.lastPlayAt > rooms[lastOp.room].session.startedAt

\* C28: the accumulated play time of a room never decreases, and it changes
\* only in a step that takes the Session from PLAYING to PAUSED or that
\* finalizes a PLAYING Session.
C28_PlayTimeGrowsLeavingPlaying ==
    [][\A r \in RoomIds :
          /\ SameRoom(r) =>
                /\ rooms'[r].session.totalPlayTime >= rooms[r].session.totalPlayTime
                /\ rooms'[r].session.totalPlayTime # rooms[r].session.totalPlayTime
                      => /\ rooms[r].session.state = "PLAYING"
                         /\ rooms'[r].session.state = "PAUSED"
          /\ \A i \in (Len(closed) + 1)..Len(closed') :
                (Live(r) /\ closed'[i].roomId = r) =>
                    /\ closed'[i].room.session.totalPlayTime
                          >= rooms[r].session.totalPlayTime
                    /\ closed'[i].room.session.totalPlayTime
                          # rooms[r].session.totalPlayTime
                          => rooms[r].session.state = "PLAYING"]_vars

\* C28 witness: a session paused after 5000 ms of play has stayed PAUSED for
\* another 5000 ms and still has 5000 ms accumulated.
C28_Witness ==
    /\ lastOp.op = "tick"
    /\ now = 10000
    /\ Live("x")
    /\ rooms["x"].session.state = "PAUSED"
    /\ rooms["x"].session.totalPlayTime = 5000

\* every member of r but c is sent exactly one event of this type and position
OthersGet(c, r, type, t) ==
    \A m \in Conns \ {c} :
        IsMember(m, r) =>
            /\ Len(out'[m]) = 1
            /\ out'[m][1].type = type
            /\ out'[m][1].currentTime = t

\* C29: a play or pause of the host sets the position to the one it
\* carries, sets isPlaying to true for play and to false for pause whatever it
\* was, and is sent to the other members, also when isPlaying had that value
\* already.
C29_PlayPauseAlwaysApply ==
    [][\A c \in Conns, r \in RoomIds, t \in Positions :
          /\ (Live(r) /\ rooms[r].hostId = c /\ Play(c, r, t))
                => /\ rooms'[r].videoState.currentTime = t
                   /\ rooms'[r].videoState.isPlaying
                   /\ OthersGet(c, r, "play", t)
          /\ (Live(r) /\ rooms[r].hostId = c /\ Pause(c, r, t))
                => /\ rooms'[r].videoState.currentTime = t
                   /\ ~rooms'[r].videoState.isPlaying
                   /\ OthersGet(c, r, "pause", t)]_vars

\* C29 witness: the host sent play at 0 and then play at 5 to a room with a
\* viewer, who was sent the second play too.
C29_Witness ==
    /\ lastOp.op = "play" /\ lastOp.result = "ok"
    /\ Len(applied) >= 3
    /\ applied[Len(applied) - 1].op = "play"
    /\ applied[Len(applied) - 1].currentTime = 0
    /\ applied[Len(applied)].currentTime = 5
    /\ rooms[lastOp.room].videoState.currentTime = 5
    /\ \E m \in Conns \ {lastOp.conn} :
          IsMember(m, lastOp.room) /\ GotOne(m, "play", 5)

\* C30: a seek of the host changes the position of its room and nothing
\* else: isPlaying, url, members, movie name and Session stay, and so does
\* every other room.
C30_SeekOnlyMovesPosition ==
    [][\A c \in Conns, r \in RoomIds, t \in Positions :
          (Live(r) /\ rooms[r].hostId = c /\ Seek(c, r, t))
              => rooms' = [rooms EXCEPT ![r].videoState.currentTime = t]]_vars

\* C30 witness: the host sought to 5 in a room that is playing, and the room
\* is still playing with its Session PLAYING.
C30_Witness ==
    /\ lastOp.op = "seek" /\ lastOp.result = "ok"
    /\ rooms[lastOp.room].videoState.currentTime = 5
    /\ rooms[lastOp.room].videoState.isPlaying
    /\ rooms[lastOp.room].session.state = "PLAYING"
    /\ applied[Len(applied) - 1].op = "play"
    /\ applied[Len(applied) - 1].currentTime = 0

\* C31: an accepted join appends the joiner to the members of the room and
\* changes nothing else in the Map; every connection that was a member before
\* is sent the user-joined notice about the joiner, the joiner is not; the
\* joiner and nobody else is sent room-joined, with role viewer.
C31_JoinEffect ==
    [][\A c \in Conns, r \in RoomIds :
          (Live(r) /\ rooms[r].hostId # c /\ JoinRoom(c, r))
              => /\ rooms' = [rooms EXCEPT ![r].members = Append(@, c)]
                 /\ Len(out'[c]) = 1
                 /\ out'[c][1].type = "room-joined"
                 /\ out'[c][1].role = "viewer"
                 /\ out'[c][1].roomId = r
                 /\ \A m \in Conns \ {c} :
                       /\ ~HasType(out'[m], "room-joined")
                       /\ IsMember(m, r) =>
                             out'[m] = <<[Ev("user-joined") EXCEPT !.userId = c]>>]_vars

\* C31 witness: a join was accepted; the joiner is the last member and was
\* sent room-joined alone, and the host was sent the user-joined notice.
C31_Witness ==
    /\ JoinAccepted
    /\ rooms[lastOp.room].members = <<rooms[lastOp.room].hostId, lastOp.conn>>
    /\ Len(out[lastOp.conn]) = 1
    /\ out[lastOp.conn][1].type = "room-joined"
    /\ out[rooms[lastOp.room].hostId]
          = <<[Ev("user-joined") EXCEPT !.userId = lastOp.conn]>>

\* the rooms finalized in this step under id r
NewlyClosed(r) ==
    {i \in (Len(closed) + 1)..Len(closed') : closed'[i].roomId = r}

\* C32: a disconnect puts every room of the Map through one branch, chosen
\* by the host test first: a room whose host disconnects is closed (Session
\* ENDED, one history row, removed from the Map) also when the host was its
\* last member; any other room is neither closed nor deleted.
C32_DisconnectBranches ==
    [][\A c \in Conns, r \in RoomIds :
          (Leaves(c) /\ Live(r)) =>
              IF rooms[r].hostId = c
              THEN /\ r \notin DOMAIN rooms'
                   /\ CountRows(history', r) = CountRows(history, r) + 1
                   /\ Cardinality(NewlyClosed(r)) = 1
                   /\ \A i \in NewlyClosed(r) :
                         closed'[i].room.session.state = "ENDED"
              ELSE /\ r \in DOMAIN rooms'
                   /\ CountRows(history', r) = CountRows(history, r)
                   /\ NewlyClosed(r) = {}]_vars

\* C32 witness: a host that was the last member of its room disconnected; the
\* room was finalized with no member left and has its history row.
C32_Witness ==
    /\ lastOp.op = "disconnect"
    /\ Len(closed) = 1
    /\ closed[1].room.hostId = lastOp.conn
    /\ closed[1].room.members = <<>>
    /\ closed[1].room.session.state = "ENDED"
    /\ CountRows(history, closed[1].roomId) = 1
    /\ ~Live(closed[1].roomId)

\* the step is a join, host command or chat request of c naming room id r
RequestNaming(c, r) ==
    \/ JoinRoom(c, r)
    \/ HostCommandBy(c, r)
    \/ \E m \in Messages, role \in Roles : ChatMessage(c, r, m, role)

\* C33: a key enters the Map only in a create-room step; a join, play,
\* pause, seek, changeVideo, upload or chat request that names an id which is
\* not in the Map leaves the Map, its key order and every group as they are,
\* and is not entered among the applied commands.
C33_OnlyCreateAddsRooms ==
    [][/\ (DOMAIN rooms' \ DOMAIN rooms # {}) => \E c \in Conns : CreateRoom(c)
       /\ \A c \in Conns, r \in RoomIds :
             (~Live(r) /\ RequestNaming(c, r))
                 => /\ rooms' = rooms
                    /\ order' = order
                    /\ groups' = groups
                    /\ applied' = applied]_vars

\* C33 witness: a room was created and closed, and a request that named its
\* id afterwards was served with the Map empty.
C33_Witness ==
    /\ lastOp.op \in {"join-room", "play", "pause", "seek", "changeVideo",
                      "upload", "chat-message"}
    /\ lastOp.room \in RoomIds
    /\ createdCount[lastOp.room] = 1
    /\ Len(closed) = 1
    /\ DOMAIN rooms = {}

\* C34: the members of every room in the Map hold no socket id twice.
C34_MembersAreSet ==
    \A r \in DOMAIN rooms :
        \A i, j \in 1..Len(rooms[r].members) :
            rooms[r].members[i] = rooms[r].members[j] => i = j

\* C35: in every room of the Map the Session is PLAYING exactly when
\* isPlaying is true.
C35_SessionAgreesWithVideoState ==
    \A r \in DOMAIN rooms :
        (rooms[r].session.state = "PLAYING") <=> rooms[r].videoState.isPlaying

\* the requests whose events are fanned out to the room they name
FanOutOps == HostCommands \cup {"chat-message", "join-room"}

\* C36: every socket that is sent an event by an accepted join, host
\* command or chat message is a member of the room the request names.
C36_ReceiversAreMembers ==
    (lastOp.op \in FanOutOps /\ lastOp.result = "ok")
        => \A c \in Conns : out[c] # <<>> => IsMember(c, lastOp.room)

\* the members of every room in the Map include its host
HostAmongMembers ==
    \A r \in DOMAIN rooms : InSeq(rooms[r].members, rooms[r].hostId)

Hosted(c) == {r \in DOMAIN rooms : rooms[r].hostId = c}

\* C38: when a socket disconnects, exactly the rooms it hosts leave the
\* Map in that step, however many they are; each is finalized once, with its
\* own Session ENDED, and gets one history row; the rooms it joined as a
\* viewer stay in the Map with their host.
C38_AllHostedRoomsClosed ==
    [][\A c \in Conns :
          Leaves(c) =>
              /\ DOMAIN rooms' = DOMAIN rooms \ Hosted(c)
              /\ Len(history') = Len(history) + Cardinality(Hosted(c))
              /\ Len(closed') = Len(closed) + Cardinality(Hosted(c))
              /\ \A r \in Hosted(c) :
                    /\ CountRows(history', r) = CountRows(history, r) + 1
                    /\ \E i \in NewlyClosed(r) :
                          /\ closed'[i].room.session.state = "ENDED"
                          /\ closed'[i].room.session.startedAt
                                = rooms[r].session.startedAt
                          /\ closed'[i].room.videoState = rooms[r].videoState
              /\ \A r \in DOMAIN rooms \ Hosted(c) :
                    rooms'[r].hostId = rooms[r].hostId]_vars

\* C38 witness: a socket that hosted two rooms disconnected; both rooms were
\* finalized and recorded in that one step and the Map is empty.
C38_Witness ==
    /\ lastOp.op = "disconnect"
    /\ Len(closed) = 2
    /\ closed[1].roomId # closed[2].roomId
    /\ closed[1].room.hostId = lastOp.conn
    /\ closed[2].room.hostId = lastOp.conn
    /\ Len(history) = 2
    /\ history[1].roomId = closed[1].roomId
    /\ history[2].roomId = closed[2].roomId
    /\ DOMAIN rooms = {}

\* the events of the host controls
Controls == {"play", "pause", "seek"}

\* C39: a page whose role is viewer emits no request while it handles an
\* event, whatever its video element fires; a page whose role is host that
\* is sent play, pause or seek leaves its video element alone and emits
\* nothing.
C39_NoEcho ==
    [][\A c \in Conns :
          Deliver(c) =>
              /\ (client[c].role = "viewer" \/ client'[c].role = "viewer")
                    => page'[c].emitted = {}
              /\ (client[c].role = "host" /\ Head(inbox[c]).type \in Controls)
                    => /\ client'[c] = client[c]
                       /\ page'[c] = NoPage[c]]_vars

\* C39 witness: a viewer page handled a play; its video element fired seeked
\* and play, and the page emitted nothing.
C39_Witness ==
    /\ lastOp.op = "deliver" /\ lastOp.result = "play"
    /\ client[lastOp.conn].role = "viewer"
    /\ client[lastOp.conn].playing
    /\ page[lastOp.conn].fired = {"seeked", "play"}
    /\ page[lastOp.conn].emitted = {}

====
